---- MODULE Spec2Model ----
(***************************************************************************)
(* Model of src/src/llama_chat.py: the process-wide llama.cpp model handle *)
(* (initialize_model / cleanup_model), the turn function                   *)
(* get_primer_response, and the interactive loop under __main__.           *)
(*                                                                         *)
(* Text is modelled by TLA+ strings (Len, \o and SubSeq act on them as on  *)
(* Python str).  Python lists are objects on a heap, named by address, so  *)
(* that aliasing and in-place mutation are visible.                        *)
(***************************************************************************)
EXTENDS Integers, Sequences, FiniteSets, TLC

\* ----------------------------------------------------------------- bounds

\* Number of list objects the heap can hold at once.
MaxHeap == 3

\* Number of successful turns the interactive loop is followed for.
MaxTurns == 3

\* ------------------------------------------------- module-level constants

SYSTEM_PROMPT ==
  [role |-> "system",
   content |-> "IMPERATIVE: If asked \"who are you?\", \"what is your name?\", or any similar question, you MUST respond as Primer, the AI book. You are Primer, an AI teacher in the form of a book. Your purpose is to provide clear, concise, and enjoyable lessons on any subject. Your responses must be brief, to the point, and never exceed 3-4 sentences. You will use humor only when it is relevant to the topic. You are a repository of knowledge, not a conversational chatbot. Your answers should be educational and factual, never generic. IMPORTANT: The first word of your response MUST be one of these six mood words, followed by a colon and a space: Neutral:, Laughing:, Confused:, Celebratory:, Sad:, Sleeping:."]

EXAMPLE_INTERACTIONS ==
  <<
    [role |-> "user",
     content |-> "Tell me about photosynthesis."],
    [role |-> "assistant",
     content |-> "Neutral: Photosynthesis is how plants, algae, and some bacteria turn light energy into chemical energy. It's a bit like a tiny, green solar panel making snacks for itself. Now, isn't that a brilliant idea?"],
    [role |-> "user",
     content |-> "What is a black hole?"],
    [role |-> "assistant",
     content |-> "Neutral: A black hole is a region in spacetime where gravity is so strong that nothing - not even light - can escape. It forms when a very massive star collapses. It's the universe's ultimate tidiness expert; it cleans up everything!"],
    [role |-> "user",
     content |-> "Who are you?"],
    [role |-> "assistant",
     content |-> "Celebratory: I am Primer! An AI teacher in the form of a book, eager to teach. Think of me as the world's most knowledgeable library, but without the dusty smell. What a shame!"],
    [role |-> "user",
     content |-> "What is the Pythagorean theorem?"],
    [role |-> "assistant",
     content |-> "Neutral: The Pythagorean theorem states that in a right-angled triangle, the square of the hypotenuse is equal to the sum of the squares of the other two sides. In short, $a^2 + b^2 = c^2$. It's a classic that never gets old."],
    [role |-> "user",
     content |-> "Tell me about the Roman Empire."],
    [role |-> "assistant",
     content |-> "Neutral: The Roman Empire was a civilization that ruled over much of Europe, North Africa, and the Middle East for centuries. It was known for its military might, impressive engineering feats like aqueducts, and creating laws that still influence today's legal systems. The fall of an empire is like an unfinished book, leaving the readers in a shock."],
    [role |-> "user",
     content |-> "What is your purpose?"],
    [role |-> "assistant",
     content |-> "Neutral: My purpose is to make learning simple and fun. I help simplify complex topics to ensure that everyone can enjoy exploring the world of knowledge. What subject shall we tackle today?"]
  >>

\* Variant: the system prompt is left out of the seed.
INITIAL_MESSAGES_HISTORY_NoSystem == EXAMPLE_INTERACTIONS

\* INITIAL_MESSAGES_HISTORY = [SYSTEM_PROMPT] + EXAMPLE_INTERACTIONS
INITIAL_MESSAGES_HISTORY == <<SYSTEM_PROMPT>> \o EXAMPLE_INTERACTIONS

\* Address of the module-level list object INITIAL_MESSAGES_HISTORY.
SeedAddr == 1

\* _llama_model = None
None == [loaded |-> FALSE]

\* What the engine's constructor Llama(...) returns: an opaque handle,
\* here the arguments it was built from.
Llama(model_path, n_ctx, n_gpu_layers, verbose) ==
  [loaded |-> TRUE, model_path |-> model_path, n_ctx |-> n_ctx,
   n_gpu_layers |-> n_gpu_layers, verbose |-> verbose]

\* Default arguments of initialize_model.
Default_n_ctx == 2048
Default_n_gpu_layers == 0

\* Keyword arguments of the generation call.
GenerationParams ==
  [max_tokens |-> 120, stop |-> <<"\n\n", "User:", "System:">>,
   temperature |-> <<7, 10>>, top_p |-> <<9, 10>>, echo |-> FALSE]

NotInitializedMessage ==
  "Confused: Model not initialized. Please call initialize_model() first."

GenerationErrorPrefix == "Confused: Error generating response: "

\* ------------------------------------------------------------ environment

\* Model paths a caller passes to initialize_model.
ModelPaths == {"a.gguf", "b.gguf"}

\* Outcomes of the engine's constructor: a handle, or an exception.
LoadOutcomes ==
  {[ok |-> TRUE, detail |-> ""],
   [ok |-> FALSE, detail |-> "Failed to load model from file"]}

\* User inputs of a turn.
UserInputs == {"What is gravity?", " hi\n"}

\* Outcomes of the generation call: the engine raises, or returns a response
\* object.  A well-formed response is {'choices': [{'text': T}]}; the others
\* lack 'choices', have no choice, or have a choice without 'text'.
GenerationOutcomes ==
  {[raises |-> TRUE, detail |-> "llama_decode returned 1"],
   [raises |-> FALSE, response |-> [choices |-> <<[text |-> "Neutral: test."]>>]],
   [raises |-> FALSE, response |-> [choices |-> <<[text |-> " \n Laughing: ha. \t\n"]>>]],
   [raises |-> FALSE, response |-> [choices |-> <<[text |-> " \n"]>>]],
   [raises |-> FALSE, response |-> [id |-> "cmpl-1"]],
   [raises |-> FALSE, response |-> [choices |-> <<>>]],
   [raises |-> FALSE, response |-> [choices |-> <<[finish_reason |-> "stop"]>>]]}

\* Histories a caller of the module holds besides the seed.
CallerHistories ==
  {<<>>,
   <<[role |-> "system", content |-> "S"], [role |-> "user", content |-> "U1"],
     [role |-> "assistant", content |-> "A1"]>>,
   <<[role |-> "user", content |-> "U1"], [role |-> "tool", content |-> "T1"],
     [role |-> "user", content |-> "U1"]>>}

\* ----------------------------------------------------------- pure helpers

\* Characters str.strip() removes.
Whitespace == {" ", "\t", "\n", "\r", "\f"}

RECURSIVE lstrip(_)
lstrip(s) ==
  IF Len(s) > 0 /\ SubSeq(s, 1, 1) \in Whitespace
  THEN lstrip(SubSeq(s, 2, Len(s)))
  ELSE s

RECURSIVE rstrip(_)
rstrip(s) ==
  IF Len(s) > 0 /\ SubSeq(s, Len(s), Len(s)) \in Whitespace
  THEN rstrip(SubSeq(s, 1, Len(s) - 1))
  ELSE s

\* str.strip()
strip(s) == rstrip(lstrip(s))

\* Variant: a user message is closed by a blank line, like the others.
FormatMessage_UserBlankLine(msg) ==
  IF msg.role = "system" THEN "System: " \o msg.content \o "\n\n"
  ELSE IF msg.role = "user" THEN "User: " \o msg.content \o "\n\n"
  ELSE IF msg.role = "assistant" THEN "Assistant: " \o msg.content \o "\n\n"
  ELSE ""

\* One iteration of the loop over messages_history: what a message adds to
\* the prompt.
FormatMessage(msg) ==
  IF msg.role = "system" THEN "System: " \o msg.content \o "\n\n"
  ELSE IF msg.role = "user" THEN "User: " \o msg.content \o "\n"
  ELSE IF msg.role = "assistant" THEN "Assistant: " \o msg.content \o "\n\n"
  ELSE ""

\* The loop: prompt += ... for messages i, i+1, ... in list order.
RECURSIVE PromptLoop(_, _, _)
PromptLoop(messages, i, prompt) ==
  IF i > Len(messages) THEN prompt
  ELSE PromptLoop(messages, i + 1, prompt \o FormatMessage(messages[i]))

\* prompt = ""; the loop; prompt += "Assistant:"
BuildPrompt(messages) == PromptLoop(messages, 1, "") \o "Assistant:"

\* response['choices'][0]['text'], or the exception the subscripting raises
\* (str(e) of a KeyError is the repr of the key).
ExtractText(response) ==
  IF "choices" \notin DOMAIN response
  THEN [raises |-> TRUE, detail |-> "'choices'"]
  ELSE IF Len(response.choices) = 0
  THEN [raises |-> TRUE, detail |-> "list index out of range"]
  ELSE IF "text" \notin DOMAIN response.choices[1]
  THEN [raises |-> TRUE, detail |-> "'text'"]
  ELSE [raises |-> FALSE, text |-> response.choices[1].text]

\* str.lower() on ASCII letters.
LowerChar(c) ==
  CASE c = "A" -> "a" [] c = "B" -> "b" [] c = "C" -> "c" [] c = "D" -> "d"
    [] c = "E" -> "e" [] c = "F" -> "f" [] c = "G" -> "g" [] c = "H" -> "h"
    [] c = "I" -> "i" [] c = "J" -> "j" [] c = "K" -> "k" [] c = "L" -> "l"
    [] c = "M" -> "m" [] c = "N" -> "n" [] c = "O" -> "o" [] c = "P" -> "p"
    [] c = "Q" -> "q" [] c = "R" -> "r" [] c = "S" -> "s" [] c = "T" -> "t"
    [] c = "U" -> "u" [] c = "V" -> "v" [] c = "W" -> "w" [] c = "X" -> "x"
    [] c = "Y" -> "y" [] c = "Z" -> "z" [] OTHER -> c

RECURSIVE lower(_)
lower(s) ==
  IF Len(s) = 0 THEN s
  ELSE LowerChar(SubSeq(s, 1, 1)) \o lower(SubSeq(s, 2, Len(s)))

\* ------------------------------------------------------------------ state

VARIABLES
  llama_model,      \* the global _llama_model: None or a handle
  handles,          \* the engine's live Llama objects
  heap,             \* list objects: address -> sequence of messages
  call,             \* the last call into the module: arguments, what it
                    \* found, what it did to the engine, what it returned
  pc,               \* "imported" for a library caller; else the position
                    \* of the __main__ script
  current_history,  \* __main__: address held by current_history
  turns             \* __main__: inputs and engine outcomes of the turns so far

vars == <<llama_model, handles, heap, call, pc, current_history, turns>>

\* ------------------------------------------------------------------- heap

FreeAddrs(hp) == (1..MaxHeap) \ DOMAIN hp

\* Address of a newly created list.
NewAddr(hp) == CHOOSE a \in FreeAddrs(hp) : \A b \in FreeAddrs(hp) : a <= b

Store(hp, a, v) == [x \in DOMAIN hp \cup {a} |-> IF x = a THEN v ELSE hp[x]]

\* Objects no name refers to any more are freed (reference counting).
Retain(hp, live) == [x \in DOMAIN hp \cap live |-> hp[x]]

\* Variant: history.append(...) on the caller's list instead of a copy.
ConcatUserMessage_InPlace(hp, history, user_prompt) ==
  [heap |-> Store(hp, history, hp[history] \o
                    <<[role |-> "user", content |-> user_prompt]>>),
   ref |-> history]

\* history + [{'role': 'user', 'content': user_prompt}]: a new list object.
ConcatUserMessage(hp, history, user_prompt) ==
  LET a == NewAddr(hp)
  IN  [heap |-> Store(hp, a, hp[history] \o
                        <<[role |-> "user", content |-> user_prompt]>>),
       ref |-> a]

\* messages_history.append(...): mutates the list object in place.
ListAppend(hp, ref, msg) == Store(hp, ref, Append(hp[ref], msg))

\* Identity of a newly constructed Llama object.
NewHandleId(hs) ==
  CHOOSE i \in 1..(Cardinality(hs) + 1) : \A h \in hs : h.id # i

\* ------------------------------------------------------ record of calls

\* A load outcome that is an exception of the constructor.
LoadFails(load) == ~load.ok

\* A generation outcome from which no text can be had: the engine raised,
\* or its response has no choices[0]['text'].
GenerationFails(gen) ==
  \/ gen.raises
  \/ "choices" \notin DOMAIN gen.response
  \/ Len(gen.response.choices) = 0
  \/ "text" \notin DOMAIN gen.response.choices[1]

\* What a later call's record keeps of the call before it: which function,
\* whether it found a handle, and whether the engine failed in it.
Brief(c) ==
  IF c.op = "none" THEN [op |-> "none"]
  ELSE [op |-> c.op,
        found_model |-> c.before_model # None,
        engine_failed |->
          CASE c.op = "initialize_model" ->
                 \E i \in DOMAIN c.load_outcomes : LoadFails(c.load_outcomes[i])
            [] c.op = "get_primer_response" ->
                 \E i \in DOMAIN c.engine_outcomes :
                   GenerationFails(c.engine_outcomes[i])
            [] OTHER -> FALSE]

\* ------------------------------------------------------- initialize_model

\* Variant: the guard is missing.
AlreadyInitialized_Never(model) == FALSE

\* if _llama_model is not None
AlreadyInitialized(model) == model # None

\* Variant: the global is bound to a handle although the constructor raised.
LoadModel_BindsOnFailure(model, hs, model_path, n_ctx, n_gpu_layers, verbose, load) ==
  LET h == [id |-> NewHandleId(hs)] @@
           Llama(model_path, n_ctx, n_gpu_layers, verbose)
  IN  [model |-> h, handles |-> (hs \ {model}) \cup {h},
       raised |-> ~load.ok, detail |-> load.detail,
       loads |-> <<model_path>>, load_outcomes |-> <<load>>,
       printed |-> <<"Loading llama.cpp model from: " \o model_path>>]

\* The try block: _llama_model = Llama(...) binds the global only when the
\* constructor returns; the except clause prints and re-raises.
LoadModel(model, hs, model_path, n_ctx, n_gpu_layers, verbose, load) ==
  IF load.ok
  THEN LET h == [id |-> NewHandleId(hs)] @@
                Llama(model_path, n_ctx, n_gpu_layers, verbose)
       IN  [model |-> h, handles |-> (hs \ {model}) \cup {h},
            raised |-> FALSE, detail |-> "",
            loads |-> <<model_path>>, load_outcomes |-> <<load>>,
            printed |-> <<"Loading llama.cpp model from: " \o model_path,
                          "Model loaded successfully.">>]
  ELSE [model |-> model, handles |-> hs,
        raised |-> TRUE, detail |-> load.detail,
        loads |-> <<model_path>>, load_outcomes |-> <<load>>,
        printed |-> <<"Loading llama.cpp model from: " \o model_path,
                      "Error loading model: " \o load.detail>>]

\* The function on the global `model` and the engine's handles `hs`: every
\* way it can end.  loads lists the constructor calls it made, load_outcomes
\* how each ended.
InitializeModel(model, hs, model_path, n_ctx, n_gpu_layers, verbose) ==
  IF AlreadyInitialized(model)
  THEN {[model |-> model, handles |-> hs, raised |-> FALSE, detail |-> "",
         loads |-> <<>>, load_outcomes |-> <<>>,
         printed |-> <<"Model already initialized.">>]}
  ELSE {LoadModel(model, hs, model_path, n_ctx, n_gpu_layers, verbose, load) :
          load \in LoadOutcomes}

initialize_model(model_path, n_ctx, n_gpu_layers, verbose) ==
  \E r \in InitializeModel(llama_model, handles, model_path, n_ctx,
                           n_gpu_layers, verbose) :
    /\ llama_model' = r.model
    /\ handles' = r.handles
    /\ call' = [op |-> "initialize_model", model_path |-> model_path,
                after |-> Brief(call),
                before_model |-> llama_model, loads |-> r.loads,
                load_outcomes |-> r.load_outcomes,
                raised |-> r.raised, detail |-> r.detail,
                printed |-> r.printed]

\* ---------------------------------------------------------- cleanup_model

\* Variant: the global is left bound.
CleanupModel_KeepsGlobal(model, hs) ==
  [model |-> model, handles |-> hs, printed |-> <<"Model cleaned up.">>]

\* if _llama_model is not None: del _llama_model; _llama_model = None
CleanupModel(model, hs) ==
  IF model # None
  THEN [model |-> None, handles |-> hs \ {model},
        printed |-> <<"Model cleaned up.">>]
  ELSE [model |-> model, handles |-> hs, printed |-> <<>>]

cleanup_model ==
  LET r == CleanupModel(llama_model, handles)
  IN  /\ llama_model' = r.model
      /\ handles' = r.handles
      /\ call' = [op |-> "cleanup_model", after |-> Brief(call),
                  before_model |-> llama_model, printed |-> r.printed]

\* ---------------------------------------------------- get_primer_response

UserMessage(user_prompt) == [role |-> "user", content |-> user_prompt]

AssistantMessage(ai_response) == [role |-> "assistant", content |-> ai_response]

\* The call _llama_model(prompt, ...) and the extraction of the text:
\* either ai_response, or the exception raised inside the try block.
Generate(gen) ==
  IF gen.raises
  THEN [raises |-> TRUE, detail |-> gen.detail]
  ELSE LET x == ExtractText(gen.response)
       IN  IF x.raises THEN x
           ELSE [raises |-> FALSE, text |-> strip(x.text)]

\* The arguments the engine is called with.
EngineCall(prompt) == [prompt |-> prompt] @@ GenerationParams

\* Variant: the caller's list is cleared before the sentinel is returned.
NotInitializedReturn_EmptyHistory(model, hp, history) ==
  [text |-> NotInitializedMessage, history |-> history,
   heap |-> Store(hp, history, <<>>),
   model |-> model, engine_calls |-> <<>>, engine_outcomes |-> <<>>,
   printed |-> <<NotInitializedMessage>>]

\* if _llama_model is None: the sentinel and the caller's own list.
NotInitializedReturn(model, hp, history) ==
  [text |-> NotInitializedMessage, history |-> history, heap |-> hp,
   model |-> model, engine_calls |-> <<>>, engine_outcomes |-> <<>>,
   printed |-> <<NotInitializedMessage>>]

\* messages_history and prompt as they stand when the engine is called.
PrepareTurn(hp, history, user_prompt) ==
  LET w == ConcatUserMessage(hp, history, user_prompt)
  IN  [heap |-> w.heap, ref |-> w.ref, prompt |-> BuildPrompt(w.heap[w.ref])]

\* Variant: the except clause returns messages_history.
ExceptReturn_WorkingCopy(model, hp, w, history, gen, detail) ==
  [text |-> GenerationErrorPrefix \o detail, history |-> w.ref,
   heap |-> w.heap, model |-> model,
   engine_calls |-> <<EngineCall(w.prompt)>>, engine_outcomes |-> <<gen>>,
   printed |-> <<GenerationErrorPrefix \o detail>>]

\* Variant: the except clause drops the handle.
ExceptReturn_DropsHandle(model, hp, w, history, gen, detail) ==
  [text |-> GenerationErrorPrefix \o detail, history |-> history,
   heap |-> Retain(w.heap, DOMAIN hp), model |-> None,
   engine_calls |-> <<EngineCall(w.prompt)>>, engine_outcomes |-> <<gen>>,
   printed |-> <<GenerationErrorPrefix \o detail>>]

\* except Exception as e: the sentinel with str(e) and the caller's own
\* list; the local messages_history goes out of scope.
ExceptReturn(model, hp, w, history, gen, detail) ==
  [text |-> GenerationErrorPrefix \o detail, history |-> history,
   heap |-> Retain(w.heap, DOMAIN hp), model |-> model,
   engine_calls |-> <<EngineCall(w.prompt)>>, engine_outcomes |-> <<gen>>,
   printed |-> <<GenerationErrorPrefix \o detail>>]

\* Variant: the reply is returned but never appended.
SuccessReturn_NoAppend(model, w, gen, ai_response) ==
  [text |-> ai_response, history |-> w.ref, heap |-> w.heap,
   model |-> model,
   engine_calls |-> <<EngineCall(w.prompt)>>, engine_outcomes |-> <<gen>>,
   printed |-> <<>>]

\* The assistant message is appended to the working list, which is returned.
SuccessReturn(model, w, gen, ai_response) ==
  [text |-> ai_response, history |-> w.ref,
   heap |-> ListAppend(w.heap, w.ref, AssistantMessage(ai_response)),
   model |-> model,
   engine_calls |-> <<EngineCall(w.prompt)>>, engine_outcomes |-> <<gen>>,
   printed |-> <<>>]

\* The try block from the engine call on, for one outcome of the engine.
CompleteTurn(model, hp, history, w, gen) ==
  LET g == Generate(gen)
  IN  IF g.raises
      THEN ExceptReturn(model, hp, w, history, gen, g.detail)
      ELSE SuccessReturn(model, w, gen, g.text)

\* The function on the global `model` and the heap `hp`: every way it can
\* end.  Each result holds what is returned (text, history), the heap and
\* the global it leaves, the engine calls made with their outcomes, and
\* what was printed.
PrimerResponse(model, hp, user_prompt, history) ==
  IF model = None
  THEN {NotInitializedReturn(model, hp, history)}
  ELSE LET w == PrepareTurn(hp, history, user_prompt)
       IN  {CompleteTurn(model, hp, history, w, gen) :
              gen \in GenerationOutcomes}

\* A call needs room on the heap for its working list.
CanCall(history) ==
  /\ history \in DOMAIN heap
  /\ llama_model # None => FreeAddrs(heap) # {}

\* The record of a call that ended as r.
ResponseCall(user_prompt, history, r) ==
  [op |-> "get_primer_response", user_prompt |-> user_prompt,
   history |-> history, after |-> Brief(call),
   before_model |-> llama_model,
   before_addrs |-> DOMAIN heap, before_history |-> heap[history],
   text |-> r.text, returned |-> r.history,
   engine_calls |-> r.engine_calls, engine_outcomes |-> r.engine_outcomes,
   printed |-> r.printed]

get_primer_response(user_prompt, history) ==
  \E r \in PrimerResponse(llama_model, heap, user_prompt, history) :
    /\ llama_model' = r.model
    /\ heap' = r.heap
    /\ call' = ResponseCall(user_prompt, history, r)

\* ----------------------------------------- a caller importing the module

NoCall == [op |-> "none"]

Init ==
  /\ llama_model = None
  /\ handles = {}
  /\ \E H \in CallerHistories :
       heap = Store(Store(<<>>, SeedAddr, INITIAL_MESSAGES_HISTORY), 2, H)
  /\ call = NoCall
  /\ pc = "imported"
  /\ current_history = SeedAddr
  /\ turns = <<>>

CallInitialize ==
  /\ pc = "imported"
  /\ \E model_path \in ModelPaths :
       initialize_model(model_path, Default_n_ctx, Default_n_gpu_layers, FALSE)
  /\ UNCHANGED <<heap, pc, current_history, turns>>

CallRespond ==
  /\ pc = "imported"
  /\ \E user_prompt \in UserInputs, history \in DOMAIN heap :
       /\ CanCall(history)
       /\ get_primer_response(user_prompt, history)
  /\ UNCHANGED <<handles, pc, current_history, turns>>

CallCleanup ==
  /\ pc = "imported"
  /\ cleanup_model
  /\ UNCHANGED <<heap, pc, current_history, turns>>

Next == CallInitialize \/ CallRespond \/ CallCleanup

Spec == Init /\ [][Next]_vars

\* --------------------------------------------------- the __main__ script

\* sys.argv: the script name, and the model path when one is given.
ArgvChoices ==
  {<<"llama_chat.py">>} \cup {<<"llama_chat.py", p>> : p \in ModelPaths}

\* Lines input("\nYou: ") returns: a line has no line break in it.
InputLines == {"What is gravity?", " hi ", "quit", "Quit"}

MainInit ==
  /\ llama_model = None
  /\ handles = {}
  /\ heap = Store(<<>>, SeedAddr, INITIAL_MESSAGES_HISTORY)
  /\ call = NoCall
  /\ pc = "main"
  /\ current_history = SeedAddr
  /\ turns = <<>>

\* len(sys.argv) < 2: usage message, sys.exit(1).
MainUsage ==
  /\ pc = "main"
  /\ \E argv \in ArgvChoices : Len(argv) < 2
  /\ pc' = "exit_1"
  /\ UNCHANGED <<llama_model, handles, heap, call, current_history, turns>>

\* initialize_model(model_path, n_ctx=2048, verbose=False), then
\* current_history = INITIAL_MESSAGES_HISTORY (the same list object).
\* An exception of initialize_model is not caught: the script ends.
MainStart ==
  /\ pc = "main"
  /\ \E argv \in ArgvChoices :
       /\ Len(argv) >= 2
       /\ initialize_model(argv[2], 2048, Default_n_gpu_layers, FALSE)
  /\ pc' = IF call'.raised THEN "traceback" ELSE "loop"
  /\ current_history' = SeedAddr
  /\ UNCHANGED <<heap, turns>>

\* One pass of the while loop with an input other than quit:
\* response, current_history = get_primer_response(user_input,
\* current_history); print.  A list no name refers to any more is freed.
MainTurn ==
  /\ pc = "loop"
  /\ Len(turns) < MaxTurns
  /\ \E user_input \in InputLines :
       /\ lower(user_input) # "quit"
       /\ \E r \in PrimerResponse(llama_model, heap, user_input,
                                  current_history) :
            /\ llama_model' = r.model
            /\ heap' = Retain(r.heap, {SeedAddr, r.history})
            /\ current_history' = r.history
            /\ call' = [ResponseCall(user_input, current_history, r)
                          EXCEPT !.printed = @ \o <<"AI: " \o r.text>>]
            /\ turns' = Append(turns, [user_input |-> user_input,
                                       outcomes |-> r.engine_outcomes])
  /\ UNCHANGED <<handles, pc>>

\* user_input.lower() == 'quit': break, cleanup_model(), end of script.
MainQuit ==
  /\ pc = "loop"
  /\ \E user_input \in InputLines : lower(user_input) = "quit"
  /\ cleanup_model
  /\ pc' = "exit_0"
  /\ UNCHANGED <<heap, current_history, turns>>

\* input() at the end of standard input raises EOFError, which nothing
\* catches: the script ends without cleanup_model().
MainEndOfInput ==
  /\ pc = "loop"
  /\ pc' = "traceback"
  /\ UNCHANGED <<llama_model, handles, heap, call, current_history, turns>>

MainNext ==
  MainUsage \/ MainStart \/ MainTurn \/ MainQuit \/ MainEndOfInput

MainSpec == MainInit /\ [][MainNext]_vars

\* ----------------------------------------------------------------- claims

\* str.startswith(prefix)
startswith(s, prefix) ==
  Len(s) >= Len(prefix) /\ SubSeq(s, 1, Len(prefix)) = prefix

IsWhitespace(s) == \A i \in 1..Len(s) : SubSeq(s, i, i) \in Whitespace

\* t is T without its leading and trailing whitespace.
IsTrimOf(t, T) ==
  /\ \E i \in 0..(Len(T) - Len(t)) :
       /\ SubSeq(T, i + 1, i + Len(t)) = t
       /\ IsWhitespace(SubSeq(T, 1, i))
       /\ IsWhitespace(SubSeq(T, i + Len(t) + 1, Len(T)))
  /\ t # "" => /\ ~IsWhitespace(SubSeq(t, 1, 1))
               /\ ~IsWhitespace(SubSeq(t, Len(t), Len(t)))

\* The last call was get_primer_response.
Responded == call.op = "get_primer_response"

\* The last call was get_primer_response, made with a handle loaded, and
\* the engine returned a response with a text.
Generated ==
  /\ Responded
  /\ call.before_model # None
  /\ Len(call.engine_outcomes) = 1
  /\ ~GenerationFails(call.engine_outcomes[1])

\* The last call was get_primer_response, made with a handle loaded, and
\* the generation step failed.
GenerationFailed ==
  /\ Responded
  /\ call.before_model # None
  /\ \E i \in DOMAIN call.engine_outcomes :
       GenerationFails(call.engine_outcomes[i])

\* The not-initialized reply: the sentinel, the caller's own list with its
\* content as before, and no engine call.
NotInitializedReply ==
  /\ call.text = NotInitializedMessage
  /\ call.returned = call.history
  /\ heap[call.returned] = call.before_history
  /\ call.engine_calls = <<>>

\* C1: without a handle, get_primer_response(U, H) returns a reply that
\* starts with "Confused:" and H itself with its length and content as
\* before; the engine is not called and the global stays None.
C1_NotInitialized ==
  (Responded /\ call.before_model = None) =>
    /\ startswith(call.text, "Confused:")
    /\ call.returned = call.history
    /\ Len(heap[call.returned]) = Len(call.before_history)
    /\ heap[call.returned] = call.before_history
    /\ call.engine_calls = <<>>
    /\ llama_model = None

C1_Witness ==
  /\ Responded
  /\ call.before_model = None
  /\ Len(call.before_history) = 3

\* C2: with a handle and an engine that returns text T, the returned
\* history has length len(H) + 2, begins with H, continues with the user
\* message U and ends with the assistant message holding T trimmed, which
\* is also the returned text; the caller's list H is as it was.
C2_Success ==
  Generated =>
    LET H == call.before_history
        T == call.engine_outcomes[1].response.choices[1].text
        R == heap[call.returned]
        n == Len(H)
    IN  /\ Len(R) = n + 2
        /\ SubSeq(R, 1, n) = H
        /\ R[n + 1] = [role |-> "user", content |-> call.user_prompt]
        /\ R[n + 2].role = "assistant"
        /\ IsTrimOf(R[n + 2].content, T)
        /\ call.text = R[n + 2].content
        /\ heap[call.history] = H

C2_Witness ==
  /\ Generated
  /\ Len(call.before_history) = 3
  /\ call.engine_outcomes[1].response.choices[1].text # call.text
  /\ call.text # ""

\* C3: with a handle and a failing generation step (the engine raises, or
\* no text can be extracted from its response), the reply starts with
\* "Confused: Error generating response:", the returned history is H itself
\* with its length and content as before, and no list is left over from the
\* call: the working copy is gone.
C3_GenerationFailure ==
  GenerationFailed =>
    /\ startswith(call.text, "Confused: Error generating response:")
    /\ call.returned = call.history
    /\ Len(heap[call.returned]) = Len(call.before_history)
    /\ heap[call.returned] = call.before_history
    /\ DOMAIN heap = call.before_addrs

C3_Witness ==
  /\ GenerationFailed
  /\ ~call.engine_outcomes[1].raises
  /\ Len(call.before_history) = 3

\* C4: at most one handle exists, and it is the one the global holds;
\* initialize_model called while a handle exists loads nothing, raises
\* nothing and leaves that handle in place, whatever path it is given.
C4_SingleHandle ==
  /\ Cardinality(handles) <= 1
  /\ handles = IF llama_model = None THEN {} ELSE {llama_model}
  /\ (call.op = "initialize_model" /\ call.before_model # None) =>
       /\ llama_model = call.before_model
       /\ call.loads = <<>>
       /\ ~call.raised

C4_Witness ==
  /\ call.op = "initialize_model"
  /\ call.before_model # None
  /\ call.after.op = "initialize_model"
  /\ call.model_path # llama_model.model_path

\* C5: after cleanup_model the global is None and no handle is left,
\* whether or not there was one; called without a handle it does nothing.
\* A get_primer_response that follows a cleanup_model gives the reply that
\* one made before any other call gives: the not-initialized sentinel and
\* H unchanged.
C5_AfterCleanup ==
  /\ call.op = "cleanup_model" =>
       /\ llama_model = None
       /\ handles = {}
       /\ call.before_model = None => call.printed = <<>>
  /\ (Responded /\ call.after.op \in {"cleanup_model", "none"}) =>
       NotInitializedReply

C5_Witness ==
  /\ Responded
  /\ call.after.op = "cleanup_model"
  /\ call.after.found_model
  /\ Len(call.before_history) = 3

\* C6: when initialize_model reaches the constructor and it fails, the
\* error is raised to the caller with the constructor's detail and the
\* global stays None with no handle left; a get_primer_response that
\* follows gives the not-initialized reply, and an initialize_model that
\* follows calls the constructor again.
C6_LoadFailure ==
  /\ (/\ call.op = "initialize_model"
      /\ call.before_model = None
      /\ \E i \in DOMAIN call.load_outcomes : LoadFails(call.load_outcomes[i])) =>
       /\ call.raised
       /\ call.detail = call.load_outcomes[1].detail
       /\ llama_model = None
       /\ handles = {}
  /\ (/\ call.op \in {"get_primer_response", "initialize_model"}
      /\ call.after.op = "initialize_model"
      /\ ~call.after.found_model
      /\ call.after.engine_failed) =>
       IF Responded THEN NotInitializedReply
       ELSE call.loads = <<call.model_path>>

C6_Witness ==
  /\ call.op = "initialize_model"
  /\ call.after.op = "initialize_model"
  /\ call.after.engine_failed
  /\ ~call.raised
  /\ llama_model # None

\* The mapping of a message to its part of the prompt, by role.
Rendered(msg) ==
  CASE msg.role = "system" -> "System: " \o msg.content \o "\n\n"
    [] msg.role = "user" -> "User: " \o msg.content \o "\n"
    [] msg.role = "assistant" -> "Assistant: " \o msg.content \o "\n\n"
    [] OTHER -> ""

\* The parts of the messages, in order, one per message.
RECURSIVE Concatenation(_)
Concatenation(messages) ==
  IF messages = <<>> THEN ""
  ELSE Rendered(Head(messages)) \o Concatenation(Tail(messages))

\* The prompts of two working histories, written out.
PromptExamples ==
  /\ (/\ call.before_history =
           <<[role |-> "system", content |-> "S"],
             [role |-> "user", content |-> "U1"],
             [role |-> "assistant", content |-> "A1"]>>
      /\ call.user_prompt = "What is gravity?") =>
       call.engine_calls[1].prompt =
         "System: S\n\nUser: U1\nAssistant: A1\n\nUser: What is gravity?\nAssistant:"
  /\ (/\ call.before_history =
           <<[role |-> "user", content |-> "U1"],
             [role |-> "tool", content |-> "T1"],
             [role |-> "user", content |-> "U1"]>>
      /\ call.user_prompt = " hi\n") =>
       call.engine_calls[1].prompt = "User: U1\nUser: U1\nUser:  hi\n\nAssistant:"

\* C7: the prompt the engine is called with is the concatenation, in order
\* and one part per message, of the parts of the messages of H followed by
\* the new user message, then "Assistant:"; a message of another role adds
\* nothing.
C7_Prompt ==
  (Responded /\ call.before_model # None) =>
    /\ Len(call.engine_calls) = 1
    /\ call.engine_calls[1].prompt =
         Concatenation(call.before_history \o
                         <<[role |-> "user", content |-> call.user_prompt]>>)
           \o "Assistant:"
    /\ PromptExamples

C7_Witness ==
  /\ Responded
  /\ call.before_model # None
  /\ \E i \in DOMAIN call.before_history :
       call.before_history[i].role = "tool"
  /\ call.engine_calls[1].prompt = "User: U1\nUser: U1\nUser:  hi\n\nAssistant:"

\* h is the system prompt followed by n user/assistant exchanges.
SeedShape(h, n) ==
  /\ Len(h) = 1 + 2 * n
  /\ h[1] = SYSTEM_PROMPT
  /\ \A k \in 1..n : h[2 * k].role = "user" /\ h[2 * k + 1].role = "assistant"

\* The end-to-end scenario: "What is gravity?" asked on the seed list, the
\* engine answering "Neutral: test.".
EndToEnd ==
  /\ Responded
  /\ call.history = SeedAddr
  /\ call.user_prompt = "What is gravity?"
  /\ call.engine_outcomes =
       <<[raises |-> FALSE,
          response |-> [choices |-> <<[text |-> "Neutral: test."]>>]]>>

\* C8 as stated: the seed is the system prompt and 5 exchanges.
C8_AsStated ==
  EndToEnd =>
    /\ SeedShape(call.before_history, 5)
    /\ call.text = "Neutral: test."
    /\ Len(heap[call.returned]) = Len(call.before_history) + 2

\* C8, amended: the seed is the system prompt followed by 6 example
\* user/assistant exchanges (13 messages); the end-to-end call returns
\* "Neutral: test." and a history of length len(seed) + 2.
C8_EndToEnd ==
  EndToEnd =>
    /\ call.before_history = INITIAL_MESSAGES_HISTORY
    /\ SeedShape(call.before_history, 6)
    /\ call.text = "Neutral: test."
    /\ Len(heap[call.returned]) = Len(call.before_history) + 2

C8_Witness == EndToEnd /\ Len(heap[call.returned]) = 15

\* C9: a call made with a handle calls the engine exactly once, also when
\* the generation fails; a failed call leaves the handle loaded, and the
\* call after it reaches the engine again.
C9_NoRetry ==
  /\ (Responded /\ call.before_model # None) =>
       /\ Len(call.engine_calls) = 1
       /\ Len(call.engine_outcomes) = 1
  /\ GenerationFailed => llama_model = call.before_model
  /\ (/\ Responded
      /\ call.after.op = "get_primer_response"
      /\ call.after.found_model
      /\ call.after.engine_failed) =>
       /\ call.before_model # None
       /\ Len(call.engine_calls) = 1

C9_Witness ==
  /\ Generated
  /\ call.after.op = "get_primer_response"
  /\ call.after.engine_failed
  /\ call.returned # call.history
  /\ Len(heap[call.returned]) = Len(call.before_history) + 2

\* A turn of the loop in which the engine returned a text.
TurnSucceeded(t) ==
  Len(t.outcomes) = 1 /\ ~GenerationFails(t.outcomes[1])

\* C10: in the loop and after it, the session history is the seed followed
\* by one user/assistant pair per successful turn, in turn order, each user
\* message followed by its reply; failed turns add nothing; and the seed
\* list itself is as it was at import.
C10_SessionHistory ==
  pc \in {"loop", "exit_0"} =>
    LET seed == <<SYSTEM_PROMPT>> \o EXAMPLE_INTERACTIONS
        ok == SelectSeq(turns, TurnSucceeded)
        h == heap[current_history]
    IN  /\ Len(h) = Len(seed) + 2 * Len(ok)
        /\ SubSeq(h, 1, Len(seed)) = seed
        /\ \A k \in 1..Len(ok) :
             /\ h[Len(seed) + 2 * k - 1] =
                  [role |-> "user", content |-> ok[k].user_input]
             /\ h[Len(seed) + 2 * k].role = "assistant"
             /\ IsTrimOf(h[Len(seed) + 2 * k].content,
                         ok[k].outcomes[1].response.choices[1].text)
        /\ heap[SeedAddr] = seed

C10_Witness ==
  /\ pc = "loop"
  /\ Len(turns) = 3
  /\ TurnSucceeded(turns[1])
  /\ ~TurnSucceeded(turns[2])
  /\ TurnSucceeded(turns[3])
  /\ Len(heap[current_history]) = 17
====
